---- MODULE Spec2Model ----
(***************************************************************************)
(* Model of prometheus-webhook-collector (src/app.py): the webhook request *)
(* handler, the chained extractor, the metric factory and the TTL/LRU      *)
(* cache that owns the metric instances registered in the Prometheus       *)
(* registry.                                                               *)
(*                                                                         *)
(* Library behaviour the handler relies on is modelled from the libraries  *)
(* it calls: cachetools.TTLCache (5.x: an entry is expired once            *)
(* not (time < expires)) and prometheus_client (CollectorRegistry,         *)
(* Gauge/Counter/Info, MetricWrapperBase.labels).                          *)
(***************************************************************************)
EXTENDS Integers, Sequences, FiniteSets, TLC

VARIABLES
    now,            \* time.monotonic(), the TTLCache timer
    metrics_cache,  \* the Cache object: [data, links, expires]
    registry,       \* CollectorRegistry._names_to_collectors: name -> object id
    objects,        \* live metric objects (Gauge/Counter/Info) by object id
    resp,           \* the status of the last request's response (0: none)
    threads,        \* request handlers in flight: where each one stands
    received,       \* the number of requests that have begun, where counted
    config,         \* the mapping loaded from config.yaml (lines 43-45)
    extraction,     \* a call of run_extractor: its arguments and its outcome
    plan            \* the requests a client is to send, where drawn beforehand

vars == <<now, metrics_cache, registry, objects, resp, threads, received,
          config, extraction, plan>>

(* what no request changes *)
static == <<config, extraction, plan>>

----------------------------------------------------------------------------
(* Bounds of the model *)

MaxTime == 2     \* the clock stops advancing here
MaxInst == 3     \* metric objects alive at one time
MaxVal == 2      \* largest magnitude a stored sample may reach
MaxRules == 2    \* longest list of event handlers a configuration is drawn with
MaxRequests == 5 \* requests concurrent handlers begin in one run

(* Configuration: cache settings of config.yaml *)
max_size == 2
ttl == 2

----------------------------------------------------------------------------
(* JSON-like values: each Python value carries its type as its field name *)

Null == [null |-> TRUE]
Num(n) == [num |-> n]
Str(s) == [str |-> s]
Obj(m) == [obj |-> m]

IsNull(v) == "null" \in DOMAIN v
IsNum(v) == "num" \in DOMAIN v
IsStr(v) == "str" \in DOMAIN v
IsObj(v) == "obj" \in DOMAIN v

(* Python truthiness, as used by `if not prev` and `if not partial` *)
Falsy(v) ==
    \/ IsNull(v)
    \/ (IsNum(v) /\ v.num = 0)
    \/ (IsStr(v) /\ v.str = "")
    \/ (IsObj(v) /\ DOMAIN v.obj = {})

(* the empty mapping *)
EmptyFn == <<>>

(* f with key k bound to v (dict item assignment) *)
Put(f, k, v) == [x \in DOMAIN f \cup {k} |-> IF x = k THEN v ELSE f[x]]

(* f without key k *)
Drop(f, k) == [x \in DOMAIN f \ {k} |-> f[x]]

(* f without the keys of S *)
DropAll(f, S) == [x \in DOMAIN f \ S |-> f[x]]

(* a sequence without the elements of S, order kept *)
RECURSIVE SeqWithout(_, _)
SeqWithout(s, S) ==
    IF s = <<>> THEN <<>>
    ELSE IF Head(s) \in S THEN SeqWithout(Tail(s), S)
    ELSE <<Head(s)>> \o SeqWithout(Tail(s), S)

(* OrderedDict.move_to_end(key), or append of a new key *)
MoveToEnd(s, k) == Append(SeqWithout(s, {k}), k)

----------------------------------------------------------------------------
(* The program state a request works on, threaded through the calls it     *)
(* makes: w = [cache, registry, objects].                                  *)

(* prometheus_client: a collector of any kind registers its base name, so  *)
(* two collectors of one metric name never coexist in a registry.          *)
(* CollectorRegistry.register(collector) raises ValueError on a duplicate. *)
CanRegister(reg, name) == name \notin DOMAIN reg

(* CollectorRegistry.unregister(collector): forget the names it holds *)
unregister(reg, id) == DropAll(reg, {n \in DOMAIN reg : reg[n] = id})

(* TTLCache.__contains__(key): the link exists and has not expired *)
Contains(c, key, time) ==
    key \in DOMAIN c.expires /\ time < c.expires[key]

(* TTLCache.expire(time): drop every link with not (time < expires).  The  *)
(* links are unlinked with Cache.__delitem__, not with pop().              *)
expire(c, time) ==
    LET dead == {k \in DOMAIN c.expires : ~(time < c.expires[k])}
    IN  [data    |-> DropAll(c.data, dead),
         links   |-> SeqWithout(c.links, dead),
         expires |-> DropAll(c.expires, dead)]

(* TTLCache.__getlink(key): the lookup moves the key to the recent end *)
getlink(c, key) == [c EXCEPT !.links = MoveToEnd(@, key)]

(* TTLCache.__delitem__(key) *)
delitem(c, key) ==
    [data    |-> Drop(c.data, key),
     links   |-> SeqWithout(c.links, {key}),
     expires |-> Drop(c.expires, key)]

(* cachetools Cache.pop(key), reached as super().pop(key): look the key up *)
(* and delete it                                                           *)
super_pop(c, key) == delitem(getlink(c, key), key)

(* Lines 65-67: value["instance"].clear() and registry.unregister(...) *)
dispose(w, id) ==
    [w EXCEPT !.objects = IF id \in DOMAIN @
                          THEN [@ EXCEPT ![id].metrics = EmptyFn] ELSE @,
              !.registry = unregister(@, id)]

(* Python frees an object nothing refers to: the objects kept are those    *)
(* the registry, a cache entry or a running handler (roots) holds.         *)
collect(w, roots) ==
    LET held == {w.registry[n] : n \in DOMAIN w.registry}
                \cup {w.cache.data[k].instance : k \in DOMAIN w.cache.data}
                \cup roots
    IN  [w EXCEPT !.objects = [id \in DOMAIN @ \cap held |-> @[id]]]

(* Cache.pop(key) of app.py: remove the entry, clear its instance and      *)
(* unregister it.  Callers make sure the key is present and not expired.   *)
(* Between sequential requests every cached instance is registered, so    *)
(* unregister() does not raise here.                                       *)
pop(w, key) ==
    LET id == w.cache.data[key].instance
    IN  dispose([w EXCEPT !.cache = super_pop(w.cache, key)], id)

(* popitem() that takes the most recently used key *)
popitem_MostRecent(w, time) ==
    LET c1 == expire(w.cache, time)
    IN  pop([w EXCEPT !.cache = c1], c1.links[Len(c1.links)])

(* TTLCache.popitem(): expire, then pop the least recently used key *)
popitem(w, time) ==
    LET c1 == expire(w.cache, time)
    IN  pop([w EXCEPT !.cache = c1], Head(c1.links))

(* popitem() that removes nothing: the cache grows past maxsize *)
MakeRoom_NoEvict(w, time) == w

(* Cache.__setitem__: `while currsize + size > maxsize: self.popitem()`    *)
(* for a key that is not stored yet; every value has size 1.               *)
RECURSIVE MakeRoom(_, _)
MakeRoom(w, time) ==
    IF Cardinality(DOMAIN w.cache.data) + 1 > max_size
    THEN MakeRoom(popitem(w, time), time)
    ELSE w

(* a store that leaves the expiry time of a key it overwrites as it was *)
setitem_KeepExpiry(w, key, value, time) ==
    LET w1 == [w EXCEPT !.cache = expire(w.cache, time)]
        w2 == IF key \in DOMAIN w1.cache.data THEN w1 ELSE MakeRoom(w1, time)
        c2 == w2.cache
    IN  [w2 EXCEPT !.cache =
            [data    |-> Put(c2.data, key, value),
             links   |-> MoveToEnd(c2.links, key),
             expires |-> IF key \in DOMAIN c2.expires THEN c2.expires
                         ELSE Put(c2.expires, key, time + ttl)]]

(* TTLCache.__setitem__(key, value): expire, make room, store, and put the *)
(* link at the recent end with expires = time + ttl.                       *)
setitem(w, key, value, time) ==
    LET w1 == [w EXCEPT !.cache = expire(w.cache, time)]
        w2 == IF key \in DOMAIN w1.cache.data THEN w1 ELSE MakeRoom(w1, time)
        c2 == w2.cache
    IN  [w2 EXCEPT !.cache =
            [data    |-> Put(c2.data, key, value),
             links   |-> MoveToEnd(c2.links, key),
             expires |-> Put(c2.expires, key, time + ttl)]]

----------------------------------------------------------------------------
(* prometheus_client metric objects.  An object is                         *)
(* [kind, name, help, labelnames, metrics]: metrics maps the label values  *)
(* of each child to the child's sample value.                              *)

(* every kind string is taken as supported *)
Kinds_Any == {"gauge", "counter", "info", "bogus"}

(* the kinds setup_metric has a branch for: lines 123-131 *)
Kinds == {"gauge", "counter", "info"}

(* The outcome of a call: ok, or the exception it raised *)
Ok == "ok"

(* MetricWrapperBase.labels(): the keyword names must be the label names   *)
(* the object was constructed with; the child is created on first use.     *)
labels_ok(o, labels) == DOMAIN labels = o.labelnames

with_child(o, labels) ==
    IF labels \in DOMAIN o.metrics THEN o
    ELSE [o EXCEPT !.metrics = Put(@, labels, 0)]

(* Gauge.set(value); Counter and Info have no set() *)
set_err(o) == IF o.kind = "gauge" THEN Ok ELSE "AttributeError"

(* Gauge.inc(amount) adds any amount; Counter.inc(amount) raises           *)
(* ValueError for amount < 0; Info has no inc()                            *)
inc_err(o, value) ==
    IF o.kind = "gauge" THEN Ok
    ELSE IF o.kind = "counter" THEN (IF value < 0 THEN "ValueError" ELSE Ok)
    ELSE "AttributeError"

(* Info.info(val) reads val.keys(): the handler passes a float.  Gauge and *)
(* Counter have no info().                                                 *)
info_err(o) == "AttributeError"

(* The update setup_metric applies for m_type: the exception, or Ok *)
update_err(m_type, o, value) ==
    IF m_type = "gauge" THEN set_err(o)
    ELSE IF m_type = "counter" THEN inc_err(o, value)
    ELSE info_err(o)

(* an update that overwrites whatever the kind *)
updated_Overwrite(m_type, old, value) == value

(* The child's sample after a successful update *)
updated(m_type, old, value) ==
    IF m_type = "gauge" THEN value ELSE old + value

(* The identity of a newly constructed object: the smallest one no live    *)
(* object has (0 when the model has none left).                            *)
FreeId(objs) ==
    LET free == (1..MaxInst) \ DOMAIN objs
    IN  IF free = {} THEN 0 ELSE CHOOSE i \in free : \A j \in free : i <= j

----------------------------------------------------------------------------
(* run_extractor.  An extractor spec is Null (None), a query               *)
(* [q |-> path] (a string that is a structured query: the path of field    *)
(* names it selects), or [list |-> <<...>>] of such.                       *)

IsList(v) == "list" \in DOMAIN v

(* `if not partial`: None and the empty string *)
StageFalsy(partial) == IsNull(partial) \/ (IsStr(partial) /\ partial.str = "")

(* jmespath.search(path, data): follow the field names, null when a field  *)
(* is missing or the value is not an object                                *)
RECURSIVE search(_, _)
search(path, data) ==
    IF path = <<>> THEN data
    ELSE IF IsObj(data) /\ Head(path) \in DOMAIN data.obj
         THEN search(Tail(path), data.obj[Head(path)])
         ELSE Null

(* a stage that is a string starting with "/": [re |-> pattern], the      *)
(* pattern being what is left once the slashes are stripped                *)
IsRegex(partial) == "re" \in DOMAIN partial

(* a str given by its characters: the text a regex group captures *)
Txt(chars) == [txt |-> chars]
IsTxt(v) == "txt" \in DOMAIN v

(* an exception propagating out of run_extractor *)
Raise(e) == [raise |-> e]
IsRaise(v) == "raise" \in DOMAIN v

(* vars(request) holds objects the json module cannot serialise *)
Opaque == [opaque |-> TRUE]
IsOpaque(v) == "opaque" \in DOMAIN v

DigitChars == <<"0", "1", "2", "3", "4", "5", "6", "7", "8", "9">>

(* the characters of the strings documents carry *)
Spelling == [abc |-> <<"a", "b", "c">>, a1 |-> <<"a", "1">>,
             value |-> <<"v", "a", "l", "u", "e">>,
             gauge |-> <<"g", "a", "u", "g", "e">>]

(* the decimal digits of a natural number *)
RECURSIVE decimal(_)
decimal(n) ==
    IF n < 10 THEN <<DigitChars[n + 1]>>
    ELSE decimal(n \div 10) \o <<DigitChars[(n % 10) + 1]>>

(* json.dumps(v) raises TypeError for a value it cannot serialise *)
RECURSIVE dumps_err(_)
dumps_err(v) ==
    IF IsOpaque(v) THEN "TypeError"
    ELSE IF IsObj(v) /\ \E k \in DOMAIN v.obj : dumps_err(v.obj[k]) # Ok
    THEN "TypeError"
    ELSE Ok

(* json.dumps(v): the text, as its characters.  The model's objects keep   *)
(* no insertion order; those given to a regex stage have one field at      *)
(* most.                                                                   *)
RECURSIVE dumps(_)
dumps(v) ==
    IF IsNull(v) THEN <<"n", "u", "l", "l">>
    ELSE IF IsNum(v)
    THEN (IF v.num < 0 THEN <<"-">> \o decimal(0 - v.num) ELSE decimal(v.num))
    ELSE IF IsStr(v) THEN <<"\"">> \o Spelling[v.str] \o <<"\"">>
    ELSE IF IsTxt(v) THEN <<"\"">> \o v.txt \o <<"\"">>
    ELSE IF DOMAIN v.obj = {} THEN <<"{", "}">>
    ELSE LET k == CHOOSE x \in DOMAIN v.obj : TRUE
         IN  <<"{", "\"">> \o Spelling[k] \o <<"\"", ":", " ">>
             \o dumps(v.obj[k]) \o <<"}">>

(* A pattern is a sequence of elements [set, cap, opt], each matching one  *)
(* character of set: a literal or a class such as \d, inside a capture     *)
(* group when cap, followed by ? when opt.                                 *)

(* the slot of a group that took no part in the match *)
NoGroup == [nogroup |-> TRUE]

NoMatch == [ok |-> FALSE, groups |-> <<>>]

(* the match of an element e and of what follows it: take is the match of *)
(* the rest once e has consumed the character c, skip the match of the     *)
(* rest with e left out.  An optional element is greedy: it is skipped     *)
(* only if taking it fails.                                                *)
match_element(e, c, take, skip) ==
    IF take.ok
    THEN [ok |-> TRUE,
          groups |-> (IF e.cap THEN <<Txt(<<c>>)>> ELSE <<>>) \o take.groups]
    ELSE IF skip.ok
    THEN [ok |-> TRUE,
          groups |-> (IF e.cap THEN <<NoGroup>> ELSE <<>>) \o skip.groups]
    ELSE NoMatch

(* the pattern matched at the start of text: whether, and the groups *)
RECURSIVE match_here(_, _)
match_here(pat, text) ==
    IF pat = <<>> THEN [ok |-> TRUE, groups |-> <<>>]
    ELSE IF text = <<>>
    THEN match_element(Head(pat), "", NoMatch,
                       IF Head(pat).opt THEN match_here(Tail(pat), text)
                       ELSE NoMatch)
    ELSE match_element(Head(pat), Head(text),
                       IF Head(text) \in Head(pat).set
                       THEN match_here(Tail(pat), Tail(text)) ELSE NoMatch,
                       IF Head(pat).opt THEN match_here(Tail(pat), text)
                       ELSE NoMatch)

(* the leftmost match, given the match at the start of text *)
RECURSIVE re_search(_, _)
search_from(here, pat, text) ==
    IF here.ok THEN here
    ELSE IF text = <<>> THEN NoMatch
    ELSE re_search(pat, Tail(text))

(* re.search(pattern, text) *)
re_search(pat, text) == search_from(match_here(pat, text), pat, text)

(* Lines 107-108: a match yields its first group, groups(default) putting  *)
(* default for a group that took no part, and next() of an empty tuple     *)
(* raises StopIteration; with no match the stage yields the None that      *)
(* re.search returned.                                                     *)
first_group(found, default) ==
    IF ~found.ok THEN Null
    ELSE IF found.groups = <<>> THEN Raise("StopIteration")
    ELSE IF found.groups[1] = NoGroup THEN default
    ELSE found.groups[1]

(* Lines 105-108: search the serialised value *)
regex_stage(pattern, prev, default) ==
    IF dumps_err(prev) # Ok THEN Raise("TypeError")
    ELSE first_group(re_search(pattern, dumps(prev)), default)

(* one stage of a chain: lines 103-112 *)
run_partial(partial, prev, default) ==
    IF StageFalsy(partial) THEN default
    ELSE IF IsRegex(partial) THEN regex_stage(partial.re, prev, default)
    ELSE LET found == search(partial.q, prev)
         IN  IF Falsy(found) \/ (IsList(found) /\ found.list = <<>>)
             THEN default ELSE found

(* the stages of one extractor, left to right: lines 98-112 *)
RECURSIVE run_chain(_, _, _)
run_chain(chain, prev, default) ==
    IF chain = <<>> \/ IsRaise(prev) THEN prev
    ELSE run_chain(Tail(chain), run_partial(Head(chain), prev, default), default)

(* `if not isinstance(x, list): x = [x]` *)
as_list(x) == IF IsList(x) THEN x.list ELSE <<x>>

run_extractor(extractors, data, default) ==
    LET exs == as_list(extractors)
        extracted == [i \in 1..Len(exs) |->
                         run_chain(as_list(exs[i]), data, default)]
        raised == {i \in 1..Len(exs) : IsRaise(extracted[i])}
    IN  IF raised # {}
        THEN extracted[CHOOSE i \in raised : \A j \in raised : i <= j]
        ELSE IF Len(extracted) = 1 THEN extracted[1]
        ELSE [list |-> extracted]

(* dict.get(key, None) *)
get(m, k) == IF k \in DOMAIN m THEN m[k] ELSE Null

(* the number a sequence of decimal digits spells *)
RECURSIVE number(_)
number(chars) ==
    IF chars = <<>> THEN 0
    ELSE 10 * number(SubSeq(chars, 1, Len(chars) - 1))
         + (CHOOSE n \in 0..9 : DigitChars[n + 1] = chars[Len(chars)])

(* float(x): the exception, or Ok.  Documents carry numbers and            *)
(* non-numeric text; the text of a regex group is numeric when it is       *)
(* digits.                                                                 *)
float_err(v) ==
    IF IsNum(v) THEN Ok
    ELSE IF IsStr(v) THEN "ValueError"
    ELSE IF IsTxt(v)
    THEN (IF v.txt # <<>> /\ \A i \in 1..Len(v.txt) :
                               \E n \in 1..10 : DigitChars[n] = v.txt[i]
          THEN Ok ELSE "ValueError")
    ELSE "TypeError"

float(v) == IF IsTxt(v) THEN number(v.txt) ELSE v.num

(* reduce(lambda a, b: {**a, **b}, labels): later mappings win *)
RECURSIVE merge(_)
merge(ls) ==
    IF Len(ls) = 1 THEN ls[1]
    ELSE LET a == merge(SubSeq(ls, 1, Len(ls) - 1))
             b == ls[Len(ls)]
         IN  Obj([n \in DOMAIN a.obj \cup DOMAIN b.obj |->
                    IF n \in DOMAIN b.obj THEN b.obj[n] ELSE a.obj[n]])

(* str(value) of a label value, as labels() applies it *)
str(v) == IF IsStr(v) THEN v.str ELSE "None"

(* the keyword arguments of labels(): label name -> text *)
label_values(labels) == [n \in DOMAIN labels.obj |-> str(labels.obj[n])]

----------------------------------------------------------------------------
(* setup_metric(m_type, metric_name, help, labels, value, old_instance):   *)
(* [err, instance, w].  old_instance is an object id, or 0 for None.       *)
(* m_type and labels come as extracted: line 120 asserts that m_type is a  *)
(* string, line 121 needs labels to be a mapping that is not empty.        *)
setup_metric(w, m_type, metric_name, help, labels, value, old_instance) ==
    IF ~IsStr(m_type)
    THEN [err |-> "AssertionError", instance |-> 0, w |-> w]
    ELSE IF ~IsObj(labels)
    THEN [err |-> "AttributeError", instance |-> 0, w |-> w]
    ELSE IF DOMAIN labels.obj = {}
    THEN [err |-> "ValueError", instance |-> 0, w |-> w]
    ELSE IF m_type.str \notin Kinds
    THEN [err |-> "ValueError", instance |-> 0, w |-> w]
    ELSE IF old_instance = 0 /\ ~CanRegister(w.registry, metric_name)
    THEN [err |-> "ValueError", instance |-> 0, w |-> w]
    ELSE
      LET kwargs == label_values(labels)
          fresh == old_instance = 0
          id == IF fresh THEN FreeId(w.objects) ELSE old_instance
          o0 == IF fresh
                THEN [kind |-> m_type.str, name |-> metric_name, help |-> help,
                      labelnames |-> DOMAIN kwargs, metrics |-> EmptyFn]
                ELSE w.objects[id]
          w1 == IF fresh
                THEN [w EXCEPT !.registry = Put(@, metric_name, id),
                               !.objects = Put(@, id, o0)]
                ELSE w
      IN  IF ~labels_ok(o0, kwargs)
          THEN [err |-> "ValueError", instance |-> 0, w |-> w1]
          ELSE
            LET o1 == with_child(o0, kwargs)
                w2 == [w1 EXCEPT !.objects = Put(@, id, o1)]
                e == update_err(m_type.str, o1, value)
            IN  IF e # Ok THEN [err |-> e, instance |-> 0, w |-> w2]
                ELSE [err |-> Ok, instance |-> id,
                      w |-> [w2 EXCEPT !.objects = Put(@, id,
                                [o1 EXCEPT !.metrics[kwargs] =
                                    updated(m_type.str, @, value)])]]

----------------------------------------------------------------------------
(* Configuration (config.yaml) and requests.  Event titles and patterns    *)
(* are sequences of characters; the patterns are literal, so               *)
(* re.match(pattern, title) is "pattern is a prefix of title".             *)

re_match(pattern, title) ==
    Len(pattern) <= Len(title) /\ SubSeq(title, 1, Len(pattern)) = pattern

ByType == [type   |-> [q |-> <<"data", "type">>],
           value  |-> [q |-> <<"data", "value">>],
           labels |-> [q |-> <<"data", "labels">>],
           help   |-> [q |-> <<"data", "help">>]]

Chained == [value |-> [list |-> <<[list |-> <<[q |-> <<"data">>],
                                               [q |-> <<"value">>]>>]>>]]

Plain == [value |-> [q |-> <<"data", "value">>]]

event_handlers ==
    << [event_title |-> <<"a", "b">>, extractors |-> Chained],
       [event_title |-> <<"a">>,      extractors |-> ByType],
       [event_title |-> <<"b">>,      extractors |-> Plain] >>

(* next((c for c in handlers if re.match(...)), None): the index of the    *)
(* first matching handler, 0 for None                                      *)
first_match(handlers, title) ==
    LET hits == {i \in 1..Len(handlers) :
                    re_match(handlers[i].event_title, title)}
    IN  IF hits = {} THEN 0
        ELSE CHOOSE i \in hits : \A j \in hits : i <= j

handler_of(title) == first_match(event_handlers, title)

(* config.yaml as the requests of Spec find it *)
Config == [webhook_basepath |-> Str("/webhook"),
           event_handlers |-> event_handlers]

Titles == {<<"a">>, <<"a", "b">>, <<"b">>, <<"z">>}

Absent == [absent |-> TRUE]

TypeOpts == {Absent, Str("counter"), Str("info"), Str("bogus")}
ValueOpts == {Num(-1), Num(1)}
BadValueOpts == {Absent, Num(0), Str("abc")}
LabelOpts == {Absent, Obj([a |-> Str("x")])}
HelpOpts == {Absent}

(* the request body: an object holding the fields that are present *)
Doc(t, v, l, h) ==
    LET all == [type |-> t, value |-> v, labels |-> l, help |-> h]
    IN  Obj([f \in {g \in DOMAIN all : all[g] # Absent} |-> all[f]])

Docs ==
    {Doc(t, v, l, h) : t \in TypeOpts, v \in ValueOpts, l \in LabelOpts,
                       h \in HelpOpts}
    \cup {Doc(Absent, v, Absent, Absent) : v \in BadValueOpts}

(* The documents sent to a title.  The handlers of the titles other than   *)
(* "a" read the value alone, so one document with the other fields set     *)
(* stands for all of them.                                                 *)
DocsFor(title) ==
    IF title = <<"a">> THEN Docs
    ELSE {Doc(Absent, v, Absent, Absent) : v \in {Num(1)} \cup BadValueOpts}
         \cup {Doc(Str("counter"), Num(1), Obj([a |-> Str("x")]), Absent)}

----------------------------------------------------------------------------
(* receive_webhook_request.  A request is a function of the state w it     *)
(* finds and the times the timer reads while it runs; it yields [w, resp]: *)
(* the state it leaves and its response.  An uncaught exception is a 500   *)
(* response; `error` names the exception.                                  *)

Response(status, error) == [status |-> status, error |-> error]

(* Lines 171-208: the handler selected for the title and the fields its   *)
(* extractors resolve from the document.  handler = 0: no handler matches; *)
(* err: the first exception an extractor or float() raises, or Ok.         *)
resolved(h, doc_help, doc_type, raw, extracted) ==
    [handler |-> h,
     help    |-> doc_help,
     m_type  |-> doc_type,
     err     |-> IF IsRaise(doc_help) THEN doc_help.raise
                 ELSE IF IsRaise(doc_type) THEN doc_type.raise
                 ELSE IF IsRaise(raw) THEN raw.raise
                 ELSE IF float_err(raw) # Ok THEN float_err(raw)
                 ELSE IF IsRaise(extracted) THEN extracted.raise
                 ELSE Ok,
     value   |-> IF ~IsRaise(raw) /\ float_err(raw) = Ok THEN float(raw)
                 ELSE 0,
     labels  |-> IF IsList(extracted) THEN merge(extracted.list)
                 ELSE extracted]

(* lines 193-208: the extractors of handler h applied to the document *)
resolve_with(handlers, title, doc) ==
    LET h == first_match(handlers, title)
        metric_extractors == IF h = 0 THEN EmptyFn
                             ELSE handlers[h].extractors
        jmespath_data == Obj([data |-> doc, req |-> Opaque])
    IN  resolved(h,
                 run_extractor(get(metric_extractors, "help"), jmespath_data,
                               Str("default help")),
                 run_extractor(get(metric_extractors, "type"), jmespath_data,
                               Str("gauge")),
                 run_extractor(get(metric_extractors, "value"), jmespath_data,
                               Null),
                 run_extractor(get(metric_extractors, "labels"), jmespath_data,
                               Obj([warn |-> Str("label extraction failed")])))

resolve(title, doc) == resolve_with(event_handlers, title, doc)

(* resolve, tabulated over the requests of the model *)
Resolved == [t \in Titles |-> [d \in DocsFor(t) |-> resolve(t, d)]]

(* the fields of a request under the loaded configuration *)
fields(title, doc) ==
    IF /\ config.event_handlers = event_handlers
       /\ title \in DOMAIN Resolved
       /\ doc \in DOMAIN Resolved[title]
    THEN Resolved[title][doc]
    ELSE resolve_with(config.event_handlers, title, doc)

(* Lines 177-191: the not-found response reads config["webhook_basepath"]  *)
(* and each handler's pattern; a configuration that leaves the base path   *)
(* to the default of line 80 has no such key.                              *)
not_found ==
    IF "webhook_basepath" \in DOMAIN config
    THEN Response(404, "not found")
    ELSE Response(500, "KeyError")

(* the cache entry of lines 220-227 *)
entry(f, title, instance) ==
    [instance |-> instance, name |-> title, help |-> f.help,
     type |-> f.m_type.str, value |-> f.value, labels |-> f.labels]

(* lines 229-230, print(metrics_cache) with debug = True (line 40):       *)
(* TTLCache.__repr__ runs expire() at the time of the print               *)
cache_repr(w, time) == [w EXCEPT !.cache = expire(@, time)]

(* The timer readings of one request.  The cache reads time.monotonic()    *)
(* anew in each call made on it, so a request reads the clock n times:    *)
(* the readings do not decrease and begin at the current time.             *)
Readings(time, n) ==
    {ts \in [1..n -> time..MaxTime] : \A i \in 1..(n - 1) : ts[i] <= ts[i + 1]}

(* the readings of a request during which the clock does not advance *)
Steady(time, n) == [i \in 1..n |-> time]

(* lines 177-239: the request once its fields f are resolved.  ts are the  *)
(* timer readings of `key in metrics_cache` (line 213), metrics_cache[key] *)
(* (line 214), metrics_cache[key] = ... (line 220) and print(metrics_cache)*)
(* (line 230).  A key that line 213 finds and line 214 finds expired       *)
(* raises KeyError in TTLCache.__getitem__, after its link moved.          *)
upsert_at(w, ts, title, f) ==
    IF f.handler = 0 THEN [w |-> w, resp |-> not_found]
    ELSE IF f.err # Ok THEN [w |-> w, resp |-> Response(500, f.err)]
    ELSE IF /\ Contains(w.cache, title, ts[1])
            /\ ~Contains(w.cache, title, ts[2])
    THEN [w |-> [w EXCEPT !.cache = getlink(@, title)],
          resp |-> Response(500, "KeyError")]
    ELSE
    LET key == title
        present == Contains(w.cache, key, ts[1])
        w1 == IF present THEN [w EXCEPT !.cache = getlink(@, key)] ELSE w
        old_instance == IF present THEN w.cache.data[key].instance ELSE 0
        r == setup_metric(w1, f.m_type, title, f.help, f.labels, f.value,
                          old_instance)
    IN
    IF r.err # Ok
    THEN [w |-> r.w, resp |-> Response(500, r.err)]
    ELSE [w |-> collect(cache_repr(setitem(r.w, key,
                                           entry(f, title, r.instance),
                                           ts[3]),
                                   ts[4]),
                        {}),
          resp |-> Response(200, "")]

(* the request when the clock does not advance while it runs *)
upsert(w, time, title, f) == upsert_at(w, Steady(time, 4), title, f)

(* POST/PUT: lines 169-239 *)
post_at(w, ts, title, doc) == upsert_at(w, ts, title, fields(title, doc))

post(w, time, title, doc) == upsert(w, time, title, fields(title, doc))

(* DELETE: lines 151-167.  ts are the timer readings of                    *)
(* `metric_name not in metrics_cache` (line 153) and of super().pop(key)   *)
(* (line 64), which raises KeyError for a key that has expired since.      *)
delete_at(w, ts, title) ==
    IF ~Contains(w.cache, title, ts[1])
    THEN [w |-> w, resp |-> Response(404, "not found")]
    ELSE IF ~Contains(w.cache, title, ts[2])
    THEN [w |-> w, resp |-> Response(500, "KeyError")]
    ELSE [w |-> collect(pop(w, title), {}), resp |-> Response(202, "")]

(* the request when the clock does not advance while it runs *)
delete(w, time, title) == delete_at(w, Steady(time, 2), title)

----------------------------------------------------------------------------
(* The state machine: one action per request, and the clock *)

World == [cache |-> metrics_cache, registry |-> registry,
          objects |-> objects]

(* The model's bounds on what a request may leave behind *)
InBounds(w) ==
    /\ 0 \notin DOMAIN w.objects
    /\ \A id \in DOMAIN w.objects :
         \A l \in DOMAIN w.objects[id].metrics :
            /\ w.objects[id].metrics[l] <= MaxVal
            /\ w.objects[id].metrics[l] >= -MaxVal

(* the state a request leaves; time is its last timer reading *)
Apply(out, time) ==
    /\ InBounds(out.w)
    /\ metrics_cache' = out.w.cache
    /\ registry' = out.w.registry
    /\ objects' = out.w.objects
    /\ resp' = out.resp.status
    /\ now' = time
    /\ UNCHANGED <<threads, received, static>>

(* a request that is refused before it makes a call on the cache reads no  *)
(* time                                                                    *)
Upsert(title, doc) ==
    \E f \in {fields(title, doc)} :
    \E ts \in IF f.handler # 0 /\ f.err = Ok THEN Readings(now, 4)
                ELSE {Steady(now, 4)} :
        \E out \in {upsert_at(World, ts, title, f)} : Apply(out, ts[4])

Delete(title) ==
    \E ts \in Readings(now, 2) :
        \E out \in {delete_at(World, ts, title)} : Apply(out, ts[2])

(* the clock advances while no request runs *)
Tick ==
    /\ now < MaxTime
    /\ now' = now + 1
    /\ resp' = 0
    /\ UNCHANGED <<metrics_cache, registry, objects, threads, received,
                   static>>

(* the handlers that can run at once *)
Threads == {1, 2}

Idle == [pc |-> "idle", title |-> <<>>, doc |-> Null, ref |-> 0,
         child |-> FALSE, popkey |-> <<>>, victim |-> 0, time |-> 0]

(* run_extractor is not being called on its own *)
NoCall == [called |-> FALSE]

Init ==
    /\ now = 0
    /\ metrics_cache = [data |-> EmptyFn, links |-> <<>>, expires |-> EmptyFn]
    /\ registry = EmptyFn
    /\ objects = EmptyFn
    /\ resp = 0
    /\ threads = [th \in Threads |-> Idle]
    /\ received = 0
    /\ config = Config
    /\ extraction = NoCall
    /\ plan = <<>>

Next ==
    \/ \E title \in Titles : \E doc \in DocsFor(title) : Upsert(title, doc)
    \/ \E title \in Titles : Delete(title)
    \/ Tick

Spec == Init /\ [][Next]_vars

----------------------------------------------------------------------------
(* Views of the state the properties are stated in *)

(* the keys physically stored in the cache *)
Stored == DOMAIN metrics_cache.data

(* the keys a membership test reports: stored and not expired *)
Present(key) == Contains(metrics_cache, key, now)

(* the object ids the registry holds *)
Registered == {registry[n] : n \in DOMAIN registry}

(* the object ids the cache entries hold *)
Cached == {metrics_cache.data[k].instance : k \in Stored}

----------------------------------------------------------------------------
(* C1: every way an entry leaves the cache unregisters its instance: in    *)
(* every step, the instance of an entry that was stored before the step    *)
(* and is not stored after it is no longer registered after the step.      *)
C1_LeavingUnregisters ==
    [][\A k \in Stored :
          k \notin DOMAIN metrics_cache'.data =>
              metrics_cache.data[k].instance \notin
                  {registry'[n] : n \in DOMAIN registry'}]_vars

----------------------------------------------------------------------------
(* C2: the number of entries in the metric cache is at most max_size in    *)
(* every reachable state.                                                  *)
C2_SizeBound == Cardinality(Stored) <= max_size

(* a full cache in which an upsert of a key that is not stored succeeds *)
C2_Witness ==
    /\ Cardinality(Stored) = max_size
    /\ \E t \in Titles \ Stored : \E d \in DocsFor(t) :
          LET out == post(World, now, t, d)
          IN  /\ out.resp.status = 200
              /\ Cardinality(DOMAIN out.w.cache.data) = max_size

----------------------------------------------------------------------------
(* Filling the cache: a client sends max_size + 1 requests, drawn          *)
(* beforehand, to distinct keys of an empty cache, each once the one       *)
(* before it has succeeded, and no entry reaches its time to live.         *)

Plans ==
    {p \in [1..(max_size + 1) ->
               UNION {{[title |-> t, doc |-> d] : d \in DocsFor(t)} :
                         t \in Titles}] :
        \A i, j \in 1..(max_size + 1) : i # j => p[i].title # p[j].title}

InitFill ==
    /\ now = 0
    /\ metrics_cache = [data |-> EmptyFn, links |-> <<>>, expires |-> EmptyFn]
    /\ registry = EmptyFn
    /\ objects = EmptyFn
    /\ resp = 0
    /\ threads = [th \in Threads |-> Idle]
    /\ received = 0
    /\ config = Config
    /\ extraction = NoCall
    /\ plan \in Plans

(* the next request of the plan, with timer readings at which no entry,    *)
(* stored or being written, has expired                                    *)
FillUpsert ==
    /\ received < max_size + 1
    /\ resp \in {0, 200}
    /\ \E ts \in Readings(now, 4) :
          /\ \A k \in Stored : ts[4] < metrics_cache.expires[k]
          /\ ts[4] < ts[3] + ttl
          /\ \E out \in {post_at(World, ts, plan[received + 1].title,
                                 plan[received + 1].doc)} :
                /\ InBounds(out.w)
                /\ metrics_cache' = out.w.cache
                /\ registry' = out.w.registry
                /\ objects' = out.w.objects
                /\ resp' = out.resp.status
                /\ now' = ts[4]
                /\ received' = received + 1
                /\ UNCHANGED <<threads, static>>

SpecFill == InitFill /\ [][FillUpsert]_vars

(* C3: successfully upserting max_size + 1 distinct keys with no TTL       *)
(* expiry leaves exactly max_size entries present and exactly one instance *)
(* unregistered, that of the least recently used key, which is the key     *)
(* written first; every other key stays cached and registered.  While the  *)
(* requests of the plan succeed: up to max_size of them leave every key    *)
(* sent present and registered, in the order written; the one after        *)
(* leaves all keys but the first, whose instance is neither registered nor *)
(* alive.                                                                  *)
C3_EvictsLeastRecentlyUsed ==
    (resp = 200 /\ received >= 1) =>
        LET sent == [i \in 1..received |-> plan[i].title]
            kept == IF received <= max_size THEN sent ELSE Tail(sent)
        IN  /\ metrics_cache.links = kept
            /\ Stored = {kept[i] : i \in 1..Len(kept)}
            /\ Cardinality(Stored) = Len(kept)
            /\ Len(kept) <= max_size
            /\ \A k \in Stored : /\ Present(k)
                                 /\ k \in DOMAIN registry
                                 /\ registry[k] = metrics_cache.data[k].instance
            /\ DOMAIN registry = Stored
            /\ DOMAIN objects = Cached

(* max_size + 1 requests have succeeded; the first key written is gone and *)
(* the ones written after it are present                                   *)
C3_Witness ==
    /\ received = max_size + 1
    /\ resp = 200
    /\ plan[1].title \notin Stored
    /\ \A i \in 2..(max_size + 1) : Present(plan[i].title)

----------------------------------------------------------------------------
(* the state after the step, as a request finds it *)
WorldAfter == [cache |-> metrics_cache', registry |-> registry',
               objects |-> objects']

(* a document every handler resolves to a gauge sample *)
ValidGauge == Doc(Absent, Num(1), Absent, Absent)

(* C4: a key is absent or active, and a valid upsert makes an absent key   *)
(* active: whenever a step takes a key from present to absent (delete,     *)
(* size eviction, or the clock passing its time to live), a valid upsert   *)
(* of the key right after the step succeeds and leaves the key present     *)
(* with a registered instance.                                             *)
C4_ReupsertAfterAbsent ==
    [][\A t \in Titles :
          (Present(t) /\ ~Contains(metrics_cache', t, now')) =>
              LET out == post(WorldAfter, now', t, ValidGauge)
              IN  /\ out.resp.status = 200
                  /\ Contains(out.w.cache, t, now')
                  /\ out.w.registry[t] = out.w.cache.data[t].instance]_vars

----------------------------------------------------------------------------
(* the request (title, doc) resolves to a counter with a negative delta *)
NegativeCounter(t, d) ==
    /\ Resolved[t][d].handler # 0
    /\ Resolved[t][d].err = Ok
    /\ Resolved[t][d].m_type = Str("counter")
    /\ Resolved[t][d].value < 0

(* C5: a counter upsert with a negative delta is rejected and changes      *)
(* nothing: the stored entries, their expiry, the registered instances and *)
(* every sample are the same after the request as before it, whether the   *)
(* key was an active counter or absent.                                    *)
C5_NegativeDeltaChangesNothing ==
    [][\A t \in Titles : \A d \in DocsFor(t) :
          (NegativeCounter(t, d) /\ Upsert(t, d)
             /\ (Present(t) => objects[metrics_cache.data[t].instance].kind
                                  = "counter")) =>
              /\ resp' = 500
              /\ metrics_cache'.data = metrics_cache.data
              /\ metrics_cache'.expires = metrics_cache.expires
              /\ registry' = registry
              /\ objects' = objects]_vars

----------------------------------------------------------------------------
(* the sample of child l of object o, 0 before the child exists *)
Sample(o, l) == IF l \in DOMAIN o.metrics THEN o.metrics[l] ELSE 0

(* the request (title, doc) resolves to a counter sample *)
CounterRequest(t, d) ==
    /\ Resolved[t][d].handler # 0
    /\ Resolved[t][d].err = Ok
    /\ Resolved[t][d].m_type = Str("counter")

(* C6: successful counter upserts to a key accumulate.  In every reachable *)
(* state and for every counter request, whatever the timer reads while it  *)
(* runs: if it succeeds on a counter instance its delta is not negative,   *)
(* and the exported sample of its labels is the sample before plus the     *)
(* delta when the request found the key in the cache, and the delta when   *)
(* it created the counter.  And no step decreases a sample of a counter.   *)
C6_CounterAccumulates ==
    /\ [](\A t \in Titles : \A d \in DocsFor(t) :
            CounterRequest(t, d) =>
              \A ts \in Readings(now, 4) :
                 LET out == post_at(World, ts, t, d)
                     l == label_values(Resolved[t][d].labels)
                 IN  (/\ out.resp.status = 200
                      /\ out.w.objects[out.w.registry[t]].kind = "counter") =>
                        /\ Resolved[t][d].value >= 0
                        /\ out.w.objects[out.w.registry[t]].metrics[l] =
                              IF Contains(metrics_cache, t, ts[1])
                              THEN Sample(objects[metrics_cache.data[t].instance],
                                          l) + Resolved[t][d].value
                              ELSE Resolved[t][d].value)
    /\ [][\A id \in DOMAIN objects \cap DOMAIN objects' :
            objects[id].kind = "counter" =>
               \A l \in DOMAIN objects[id].metrics :
                   l \in DOMAIN objects'[id].metrics
                   /\ objects'[id].metrics[l] >= objects[id].metrics[l]]_vars

(* a cached, registered counter that has accumulated two deltas *)
C6_Witness ==
    \E t \in Titles :
        /\ Present(t)
        /\ resp = 200
        /\ metrics_cache.data[t].type = "counter"
        /\ metrics_cache.data[t].value = 1
        /\ t \in DOMAIN registry
        /\ objects[registry[t]].kind = "counter"
        /\ \E l \in DOMAIN objects[registry[t]].metrics :
              objects[registry[t]].metrics[l] = 2

----------------------------------------------------------------------------
(* C7: the kind recorded in a cache entry is the kind of the instance the  *)
(* entry holds, since an upsert of another kind is refused.                *)
C7_RecordedKindIsInstanceKind ==
    \A k \in Stored :
        metrics_cache.data[k].type = objects[metrics_cache.data[k].instance].kind

----------------------------------------------------------------------------
(* C8: a delete of a present key answers 202 and leaves the key neither    *)
(* stored nor registered, its instance gone from the registry; a delete of *)
(* an absent key answers 404 and changes neither cache nor registry.  The  *)
(* key is present or absent as the delete finds it at line 153; the timer  *)
(* may read a later time at line 64.                                       *)
C8_DeleteSemantics ==
    \A t \in Titles : \A ts \in Readings(now, 2) :
        LET out == delete_at(World, ts, t)
        IN  IF Contains(metrics_cache, t, ts[1])
            THEN /\ out.resp.status = 202
                 /\ t \notin DOMAIN out.w.cache.data
                 /\ t \notin DOMAIN out.w.registry
                 /\ metrics_cache.data[t].instance \notin
                        {out.w.registry[n] : n \in DOMAIN out.w.registry}
                 /\ \A k \in Stored \ {t} :
                        out.w.cache.data[k] = metrics_cache.data[k]
            ELSE /\ out.resp.status = 404
                 /\ out.w = World

----------------------------------------------------------------------------
(* C10: upserting a gauge document twice gives what upserting it once      *)
(* gives.  Take any reachable state and any request that succeeds there as *)
(* a gauge: the same request again, at the same time or at any later one,  *)
(* succeeds, leaves the key present with the gauge value and the instance  *)
(* of the first, the registry and every sample as the first left them, and *)
(* no more cache entries than the first left.                              *)
C10_GaugeUpsertIdempotent ==
    \A t \in Titles : \A d \in DocsFor(t) :
        LET once == post(World, now, t, d)
        IN  (once.resp.status = 200 /\ Resolved[t][d].m_type = Str("gauge")
               /\ once.w.objects[once.w.registry[t]].kind = "gauge") =>
              \A later \in now..MaxTime :
                  LET twice == post(once.w, later, t, d)
                  IN  /\ twice.resp.status = 200
                      /\ Contains(twice.w.cache, t, later)
                      /\ twice.w.cache.data[t] = once.w.cache.data[t]
                      /\ twice.w.registry = once.w.registry
                      /\ twice.w.objects = once.w.objects
                      /\ Cardinality(DOMAIN twice.w.cache.data)
                            <= Cardinality(DOMAIN once.w.cache.data)

----------------------------------------------------------------------------
(* Concurrent handlers.  The server runs one handler per request and the   *)
(* module takes no lock, so the handlers interleave between the calls      *)
(* they make on the cache and the registry.  Each such call is one step:   *)
(* `key in metrics_cache`, metrics_cache[key], the metric constructor,     *)
(* labels(), set()/inc()/info(), metrics_cache[key] = ... up to the       *)
(* call popitem() makes of Cache.pop, print(metrics_cache), super().pop(), *)
(* clear() and unregister().  A call into cachetools or prometheus_client  *)
(* is taken whole; app.py's own Cache.pop is not, so a handler can be held *)
(* between popitem() naming the key to evict and line 64 removing it.      *)
(* What a handler computes between two calls                               *)
(* touches nothing shared and goes with the call that follows.  A handler  *)
(* keeps the object it works on alive (ref); child tells whether the       *)
(* child labels() gave it is still the one its instance holds.             *)

ConcTitles == {<<"a">>, <<"a", "b">>, <<"b">>}

(* valid documents: a gauge sample of 1 with the default labels *)
ConcDocs(title) ==
    {d \in DocsFor(title) :
        /\ Resolved[title][d].err = Ok
        /\ Resolved[title][d].value = 1
        /\ "labels" \notin DOMAIN d.obj
        /\ Resolved[title][d].m_type = Str("gauge")}

(* The handlers held inside a `with self.timer` block of the cache: those  *)
(* whose metrics_cache[key] = ... has called Cache.pop through popitem()   *)
Within == {"evict_pop", "evict_clear", "evict_unregister", "store_more"}

(* The timer of the cache, one object shared by all handlers.  It reads    *)
(* the clock when no handler is inside a `with self.timer` block, and      *)
(* else gives every handler the time the outermost block was entered at.   *)
timer ==
    IF \E th \in Threads : threads[th].pc \in Within
    THEN threads[CHOOSE th \in Threads : threads[th].pc \in Within].time
    ELSE now

(* the objects the handlers other than th hold *)
Roots(th) ==
    UNION {{threads[o].ref, threads[o].victim} : o \in Threads \ {th}} \ {0}

Become(w) ==
    /\ InBounds(w)
    /\ metrics_cache' = w.cache
    /\ registry' = w.registry
    /\ objects' = w.objects
    /\ now' = now
    /\ UNCHANGED <<received, static>>

(* lines 120-123 and 132-133: what setup_metric raises before it makes a   *)
(* call on a metric object, or Ok                                          *)
setup_err(m_type, labels) ==
    IF ~IsStr(m_type) THEN "AssertionError"
    ELSE IF ~IsObj(labels) THEN "AttributeError"
    ELSE IF DOMAIN labels.obj = {} THEN "ValueError"
    ELSE IF m_type.str \notin Kinds THEN "ValueError"
    ELSE Ok

(* Gauge(...), Counter(...) or Info(...) of lines 124, 127, 130: the new   *)
(* object registers itself and has no child yet                            *)
construct(w, id, kind, metric_name, help, labelnames) ==
    IF ~CanRegister(w.registry, metric_name)
    THEN [err |-> "ValueError", instance |-> 0, w |-> w]
    ELSE [err |-> Ok, instance |-> id,
          w |-> [w EXCEPT !.registry = Put(@, metric_name, id),
                          !.objects = Put(@, id,
                              [kind |-> kind, name |-> metric_name,
                               help |-> help, labelnames |-> labelnames,
                               metrics |-> EmptyFn])]]

(* c.labels(...) of lines 125, 128, 131: the child for these label values, *)
(* created with sample 0 when the instance has none                        *)
c_labels(w, id, kwargs) ==
    IF ~labels_ok(w.objects[id], kwargs)
    THEN [err |-> "ValueError", w |-> w]
    ELSE [err |-> Ok, w |-> [w EXCEPT !.objects[id] = with_child(@, kwargs)]]

(* .set(value), .inc(value) or .info(value) of lines 125, 128, 131 on the  *)
(* child labels() returned.  A child that clear() has removed from its     *)
(* instance since takes the update where no one sees it.                   *)
c_update(w, m_type, id, kwargs, value, attached) ==
    IF update_err(m_type, w.objects[id], value) # Ok
    THEN [err |-> update_err(m_type, w.objects[id], value), w |-> w]
    ELSE IF ~attached THEN [err |-> Ok, w |-> w]
    ELSE [err |-> Ok,
          w |-> [w EXCEPT !.objects[id].metrics[kwargs] =
                              updated(m_type, @, value)]]

(* line 66, value["instance"].clear(): the instance drops its children *)
clear(w, id) ==
    [w EXCEPT !.objects = IF id \in DOMAIN @
                          THEN [@ EXCEPT ![id].metrics = EmptyFn] ELSE @]

(* the handlers that hold a child of a cleared instance hold a child the   *)
(* instance no longer has                                                  *)
detach(ths, ids) ==
    [o \in DOMAIN ths |-> IF ths[o].ref \in ids
                          THEN [ths[o] EXCEPT !.child = FALSE] ELSE ths[o]]

(* lines 169-213: a request arrives; resolve the fields and test          *)
(* `key in metrics_cache`                                                  *)
Check(th, title, doc) ==
    /\ threads[th].pc = "idle"
    /\ received < MaxRequests
    /\ received' = received + 1
    /\ \E f \in {fields(title, doc)} :
           IF f.handler = 0 \/ f.err # Ok
           THEN /\ resp' = (IF f.handler = 0 THEN not_found.status ELSE 500)
                /\ UNCHANGED threads
           ELSE /\ threads' = [threads EXCEPT ![th] =
                      [Idle EXCEPT !.title = title, !.doc = doc,
                                   !.pc = IF Contains(metrics_cache, title,
                                                      timer)
                                          THEN "read" ELSE "construct"]]
                /\ UNCHANGED resp
    /\ UNCHANGED <<now, metrics_cache, registry, objects, static>>

(* line 214, metrics_cache[key]["instance"]: TTLCache.__getitem__ raises   *)
(* KeyError for a key that is gone, and for one that has expired after     *)
(* moving its link to the recent end                                       *)
Read(th) ==
    /\ threads[th].pc = "read"
    /\ LET title == threads[th].title
       IN  IF title \notin DOMAIN metrics_cache.data
           THEN /\ resp' = 500
                /\ threads' = [threads EXCEPT ![th] = Idle]
                /\ UNCHANGED <<now, metrics_cache, registry, objects, received,
                               static>>
           ELSE /\ Become([World EXCEPT !.cache = getlink(@, title)])
                /\ IF Contains(metrics_cache, title, timer)
                   THEN /\ threads' = [threads EXCEPT ![th].pc = "labels",
                               ![th].ref = metrics_cache.data[title].instance]
                        /\ UNCHANGED resp
                   ELSE /\ threads' = [threads EXCEPT ![th] = Idle]
                        /\ resp' = 500

(* lines 120-124 (127, 130) with old_instance = None: the constructor *)
Construct(th) ==
    /\ threads[th].pc = "construct"
    /\ LET me == threads[th] IN
           \E f \in {fields(me.title, me.doc)} :
              IF setup_err(f.m_type, f.labels) # Ok
              THEN /\ resp' = 500
                   /\ threads' = [threads EXCEPT ![th] = Idle]
                   /\ UNCHANGED <<now, metrics_cache, registry, objects,
                                  received, static>>
              ELSE \E r \in {construct(World, FreeId(objects), f.m_type.str,
                                       me.title, f.help,
                                       DOMAIN label_values(f.labels))} :
                      /\ Become(r.w)
                      /\ IF r.err # Ok
                         THEN /\ threads' = [threads EXCEPT ![th] = Idle]
                              /\ resp' = 500
                         ELSE /\ threads' = [threads EXCEPT
                                                ![th].pc = "labels",
                                                ![th].ref = r.instance]
                              /\ UNCHANGED resp

(* c.labels(...) of lines 125, 128, 131; reached with an old instance, the *)
(* checks of lines 120-123 and 132-133 come first                          *)
Labels(th) ==
    /\ threads[th].pc = "labels"
    /\ LET me == threads[th] IN
           \E f \in {fields(me.title, me.doc)} :
              IF setup_err(f.m_type, f.labels) # Ok
              THEN /\ Become(collect(World, Roots(th)))
                   /\ threads' = [threads EXCEPT ![th] = Idle]
                   /\ resp' = 500
              ELSE \E r \in {c_labels(World, me.ref, label_values(f.labels))} :
                      IF r.err # Ok
                      THEN /\ Become(collect(r.w, Roots(th)))
                           /\ threads' = [threads EXCEPT ![th] = Idle]
                           /\ resp' = 500
                      ELSE /\ Become(r.w)
                           /\ threads' = [threads EXCEPT ![th].pc = "update",
                                                         ![th].child = TRUE]
                           /\ UNCHANGED resp

(* .set(value), .inc(value) or .info(value) of lines 125, 128, 131, and    *)
(* the return of line 135                                                  *)
Update(th) ==
    /\ threads[th].pc = "update"
    /\ LET me == threads[th] IN
           \E f \in {fields(me.title, me.doc)} :
           \E r \in {c_update(World, f.m_type.str, me.ref,
                              label_values(f.labels), f.value, me.child)} :
              IF r.err # Ok
              THEN /\ Become(collect(r.w, Roots(th)))
                   /\ threads' = [threads EXCEPT ![th] = Idle]
                   /\ resp' = 500
              ELSE /\ Become(r.w)
                   /\ threads' = [threads EXCEPT ![th].pc = "store",
                                                 ![th].child = FALSE]
                   /\ UNCHANGED resp

(* the end of TTLCache.__setitem__: the value is stored and the link goes  *)
(* to the recent end with expires = time + ttl                             *)
put_entry(c, key, value, time) ==
    [data    |-> Put(c.data, key, value),
     links   |-> MoveToEnd(c.links, key),
     expires |-> Put(c.expires, key, time + ttl)]

(* popitem() up to its call self.pop(key), on the cache c as expire() left *)
(* it: KeyError when no link is left, else the key of the least recently   *)
(* used entry, which Cache.pop is called with                              *)
next_key(w, c) ==
    IF c.links = <<>>
    THEN [err |-> "KeyError", popkey |-> <<>>, w |-> [w EXCEPT !.cache = c]]
    ELSE [err |-> Ok, popkey |-> Head(c.links), w |-> [w EXCEPT !.cache = c]]

(* metrics_cache[key] = value up to the next call of Cache.pop, or to its  *)
(* end.  TTLCache.__setitem__ enters the timer once (time) and runs        *)
(* expire(time); Cache.__setitem__ loops                                   *)
(* `while size + 1 > maxsize: self.popitem()` for a key that was not       *)
(* stored when it began.  looping: the call is resumed inside that loop.   *)
store_round(w, c, key, value, time, looping) ==
    IF /\ looping \/ key \notin DOMAIN c.data
       /\ Cardinality(DOMAIN c.data) + 1 > max_size
    THEN next_key(w, expire(w.cache, time))
    ELSE [err |-> Ok, popkey |-> <<>>,
          w |-> [w EXCEPT !.cache = put_entry(c, key, value, time)]]

(* What a handler does with the outcome r of a round of the store.  An     *)
(* entry the store replaced no longer keeps its instance alive.            *)
AfterRound(th, r, time) ==
    IF r.err # Ok
    THEN /\ Become(collect(r.w, Roots(th)))
         /\ threads' = [threads EXCEPT ![th] = Idle]
         /\ resp' = 500
    ELSE /\ Become(collect(r.w, Roots(th) \cup {threads[th].ref}))
         /\ threads' = [threads EXCEPT
                           ![th].pc = IF r.popkey = <<>> THEN "repr"
                                      ELSE "evict_pop",
                           ![th].popkey = r.popkey,
                           ![th].time = time]
         /\ UNCHANGED resp

(* line 220, metrics_cache[key] = {...}: enter the timer, expire, and      *)
(* either store the entry or begin to evict                                *)
Store(th) ==
    /\ threads[th].pc = "store"
    /\ LET me == threads[th] IN
           \E f \in {fields(me.title, me.doc)} : \E time \in {timer} :
           \E r \in {store_round(World, expire(metrics_cache, time), me.title,
                                 entry(f, me.title, me.ref), time, FALSE)} :
              AfterRound(th, r, time)

(* line 64 reached from line 220 through popitem(): super().pop(key)       *)
(* raises KeyError for a key that is gone since popitem() named it, and    *)
(* the request ends without storing its entry                              *)
EvictPop(th) ==
    /\ threads[th].pc = "evict_pop"
    /\ LET me == threads[th]
       IN  IF ~Contains(metrics_cache, me.popkey, timer)
           THEN /\ Become(collect(World, Roots(th)))
                /\ threads' = [threads EXCEPT ![th] = Idle]
                /\ resp' = 500
           ELSE /\ Become([World EXCEPT !.cache = super_pop(@, me.popkey)])
                /\ threads' = [threads EXCEPT
                                  ![th].pc = "evict_clear",
                                  ![th].popkey = <<>>,
                                  ![th].victim =
                                      metrics_cache.data[me.popkey].instance]
                /\ UNCHANGED resp

(* line 66 reached from line 220 through popitem(): clear() on the        *)
(* instance of the evicted entry                                           *)
EvictClear(th) ==
    /\ threads[th].pc = "evict_clear"
    /\ Become(clear(World, threads[th].victim))
    /\ threads' = detach([threads EXCEPT ![th].pc = "evict_unregister"],
                         {threads[th].victim})
    /\ UNCHANGED resp

(* line 67 reached from line 220: registry.unregister raises KeyError for  *)
(* a collector it does not hold, and the request ends without storing its  *)
(* entry                                                                   *)
EvictUnregister(th) ==
    /\ threads[th].pc = "evict_unregister"
    /\ LET me == threads[th] IN
           IF me.victim \notin Registered
           THEN /\ Become(collect(World, Roots(th)))
                /\ threads' = [threads EXCEPT ![th] = Idle]
                /\ resp' = 500
           ELSE /\ Become(collect([World EXCEPT !.registry =
                                                   unregister(@, me.victim)],
                                  Roots(th) \cup {me.ref}))
                /\ threads' = [threads EXCEPT ![th].pc = "store_more",
                                              ![th].victim = 0]
                /\ UNCHANGED resp

(* line 220 after Cache.pop returned: the loop of Cache.__setitem__ goes   *)
(* on at the time the store began with                                     *)
StoreMore(th) ==
    /\ threads[th].pc = "store_more"
    /\ LET me == threads[th] IN
           \E f \in {fields(me.title, me.doc)} :
           \E r \in {store_round(World, metrics_cache, me.title,
                                 entry(f, me.title, me.ref), me.time, TRUE)} :
              AfterRound(th, r, me.time)

(* lines 229-239: print(metrics_cache), which expires at the time the      *)
(* timer gives the print, and the answer                                   *)
Repr(th) ==
    /\ threads[th].pc = "repr"
    /\ Become(collect(cache_repr(World, timer), Roots(th)))
    /\ threads' = [threads EXCEPT ![th] = Idle]
    /\ resp' = 200

(* lines 151-156: DELETE tests `metric_name not in metrics_cache` *)
DeleteCheck(th, title) ==
    /\ threads[th].pc = "idle"
    /\ received < MaxRequests
    /\ received' = received + 1
    /\ IF ~Contains(metrics_cache, title, timer)
       THEN resp' = 404 /\ UNCHANGED threads
       ELSE /\ threads' = [threads EXCEPT ![th] =
                              [Idle EXCEPT !.pc = "pop", !.title = title]]
            /\ UNCHANGED resp
    /\ UNCHANGED <<now, metrics_cache, registry, objects, static>>

(* lines 158 and 64: super().pop(key) raises KeyError for a key that is    *)
(* gone or has expired by the time the timer gives                         *)
DeletePop(th) ==
    /\ threads[th].pc = "pop"
    /\ LET title == threads[th].title
       IN  IF ~Contains(metrics_cache, title, timer)
           THEN /\ resp' = 500
                /\ threads' = [threads EXCEPT ![th] = Idle]
                /\ UNCHANGED <<now, metrics_cache, registry, objects, received,
                               static>>
           ELSE /\ Become([World EXCEPT !.cache = super_pop(@, title)])
                /\ threads' = [threads EXCEPT ![th].pc = "clear",
                                 ![th].ref = metrics_cache.data[title].instance]
                /\ UNCHANGED resp

(* lines 65-66: value["instance"].clear() *)
DeleteClear(th) ==
    /\ threads[th].pc = "clear"
    /\ Become(clear(World, threads[th].ref))
    /\ threads' = detach([threads EXCEPT ![th].pc = "unregister"],
                         {threads[th].ref})
    /\ UNCHANGED resp

(* lines 67-68 and 165: registry.unregister raises KeyError for a          *)
(* collector it does not hold                                              *)
DeleteUnregister(th) ==
    /\ threads[th].pc = "unregister"
    /\ Become(collect([World EXCEPT !.registry =
                                       unregister(@, threads[th].ref)],
                      Roots(th)))
    /\ resp' = (IF threads[th].ref \in Registered THEN 202 ELSE 500)
    /\ threads' = [threads EXCEPT ![th] = Idle]

NextConc ==
    \/ \E th \in Threads : \E title \in ConcTitles :
          \E doc \in ConcDocs(title) : Check(th, title, doc)
    \/ \E th \in Threads : Read(th)
    \/ \E th \in Threads : Construct(th)
    \/ \E th \in Threads : Labels(th)
    \/ \E th \in Threads : Update(th)
    \/ \E th \in Threads : Store(th)
    \/ \E th \in Threads : EvictPop(th)
    \/ \E th \in Threads : EvictClear(th)
    \/ \E th \in Threads : EvictUnregister(th)
    \/ \E th \in Threads : StoreMore(th)
    \/ \E th \in Threads : Repr(th)
    \/ \E th \in Threads : \E title \in ConcTitles : DeleteCheck(th, title)
    \/ \E th \in Threads : DeletePop(th)
    \/ \E th \in Threads : DeleteClear(th)
    \/ \E th \in Threads : DeleteUnregister(th)
    \/ Tick

SpecConc == Init /\ [][NextConc]_vars

----------------------------------------------------------------------------
(* C9: the cache mapping and the registry change as one unit under         *)
(* concurrent handlers: in every state two interleaved requests can reach, *)
(* the registered instances are exactly the cached instances, and no       *)
(* valid upsert fails.                                                     *)
C9_CacheAndRegistryAgree ==
    /\ Registered = Cached
    /\ resp # 500

----------------------------------------------------------------------------
(* the request (title, doc) resolves to kind info with a value that parses *)
InfoRequest(t, d) ==
    /\ fields(t, d).handler # 0
    /\ fields(t, d).err = Ok
    /\ fields(t, d).m_type = Str("info")
    /\ IsObj(fields(t, d).labels)

(* C11: an upsert whose resolved kind is info succeeds: for a key that is  *)
(* neither cached nor registered it answers 200 and leaves the key present *)
(* in the cache with a registered info instance.                           *)
C11_InfoUpsertSucceeds ==
    \A t \in Titles : \A d \in DocsFor(t) :
        (InfoRequest(t, d) /\ t \notin Stored /\ t \notin DOMAIN registry) =>
            LET out == post(World, now, t, d)
            IN  /\ out.resp.status = 200
                /\ Contains(out.w.cache, t, now)
                /\ out.w.objects[out.w.cache.data[t].instance].kind = "info"

----------------------------------------------------------------------------
(* Handler selection over every configuration: the lists of at most        *)
(* MaxRules handlers whose patterns overlap, each reading the value from   *)
(* one of two fields, with the base path configured or left to its         *)
(* default.                                                                *)

Patterns == {<<"a">>, <<"a", "b">>, <<"b">>}

Other == [value |-> [q |-> <<"data", "other">>]]

RuleOpts == {[event_title |-> p, extractors |-> e] :
                p \in Patterns, e \in {Plain, Other}}

RuleLists == UNION {[1..n -> RuleOpts] : n \in 0..MaxRules}

Configs ==
    {[event_handlers |-> rs] : rs \in RuleLists}
    \cup {[webhook_basepath |-> Str("/webhook"), event_handlers |-> rs] :
             rs \in RuleLists}

(* a document in which the two fields hold different numbers *)
RuleDoc == Obj([value |-> Num(1), other |-> Num(2)])

InitRules ==
    /\ now = 0
    /\ metrics_cache = [data |-> EmptyFn, links |-> <<>>, expires |-> EmptyFn]
    /\ registry = EmptyFn
    /\ objects = EmptyFn
    /\ resp = 0
    /\ threads = [th \in Threads |-> Idle]
    /\ received = 0
    /\ config \in Configs
    /\ extraction = NoCall
    /\ plan = <<>>

(* POST of RuleDoc; as in Upsert the timer is read anew at lines 213, 214, *)
(* 220 and 230, and a request that is refused before it makes a call on   *)
(* the cache reads no time                                                 *)
UpsertRule(title) ==
    \E f \in {fields(title, RuleDoc)} :
    \E ts \in IF f.handler # 0 /\ f.err = Ok THEN Readings(now, 4)
                ELSE {Steady(now, 4)} :
        \E out \in {upsert_at(World, ts, title, f)} : Apply(out, ts[4])

NextRules ==
    \/ \E title \in Titles : UpsertRule(title)
    \/ \E title \in Titles : Delete(title)

SpecRules == InitRules /\ [][NextRules]_vars

(* the number a handler reads from RuleDoc *)
ValueOf(handler) == IF handler.extractors = Plain THEN 1 ELSE 2

(* C12: handler selection is first-match-wins in configuration order: for  *)
(* every event title and every handler list, an upsert applies the first   *)
(* handler whose pattern matches the title from its start, even when a     *)
(* later one matches too; when none matches the request answers 404 and    *)
(* leaves cache and registry as they were.                                 *)
C12_FirstMatchWins ==
    \A t \in Titles :
        LET rules == config.event_handlers
            hits == {i \in 1..Len(rules) : re_match(rules[i].event_title, t)}
            out == post(World, now, t, RuleDoc)
        IN  IF hits = {}
            THEN out.resp.status = 404 /\ out.w = World
            ELSE \A i \in hits :
                    (\A j \in hits : i <= j) =>
                        /\ out.resp.status = 200
                        /\ out.w.cache.data[t].value = ValueOf(rules[i])

----------------------------------------------------------------------------
(* the request (title, doc) is rejected for one of the reasons of C13: no  *)
(* handler matches, the extracted value does not parse as a number, or the *)
(* kind is none of gauge, counter and info                                 *)
Rejected(t, d) ==
    \/ fields(t, d).handler = 0
    \/ fields(t, d).err # Ok
    \/ (IsStr(fields(t, d).m_type)
          /\ fields(t, d).m_type.str \notin {"gauge", "counter", "info"})

(* C13 as written: such a request leaves the cache and the registry        *)
(* exactly as they were.                                                   *)
C13_RejectedChangesNothing ==
    \A t \in Titles : \A d \in DocsFor(t) :
        Rejected(t, d) =>
            LET out == post(World, now, t, d)
            IN  /\ out.resp.status \in {404, 500}
                /\ out.w = World

(* C13 as amended: such a request is refused and creates no instance, adds *)
(* no entry and changes no entry, expiry time, registration or sample,     *)
(* whatever the timer reads while it runs; all it may change is the        *)
(* cache's use order, in which a refused unsupported-kind upsert of a key  *)
(* that line 213 found counts as a use of the key.                         *)
C13_RejectedKeepsEntries ==
    \A t \in Titles : \A d \in DocsFor(t) :
        Rejected(t, d) =>
            \A ts \in Readings(now, 4) :
                LET out == post_at(World, ts, t, d)
                IN  /\ out.resp.status \in {404, 500}
                    /\ out.w.cache.data = metrics_cache.data
                    /\ out.w.cache.expires = metrics_cache.expires
                    /\ out.w.registry = registry
                    /\ out.w.objects = objects
                    /\ (out.w.cache.links # metrics_cache.links =>
                          /\ Contains(metrics_cache, t, ts[1])
                          /\ fields(t, d).handler # 0
                          /\ fields(t, d).err = Ok
                          /\ out.w.cache.links =
                                MoveToEnd(metrics_cache.links, t))

(* a request has just been refused; an unsupported-kind upsert of an       *)
(* active key, refused in this state, has the key at the recent end of the *)
(* use order although another key was written later                        *)
C13_Witness ==
    /\ resp = 500
    /\ \E t \in Titles : \E d \in DocsFor(t) :
          /\ Present(t)
          /\ fields(t, d).handler # 0
          /\ fields(t, d).err = Ok
          /\ fields(t, d).m_type = Str("bogus")
          /\ post(World, now, t, d).resp.status = 500
          /\ post(World, now, t, d).w = World
          /\ \E k \in Stored : metrics_cache.expires[k] > metrics_cache.expires[t]

----------------------------------------------------------------------------
----------------------------------------------------------------------------
(* the keys a membership test reports in cache c at a time *)
PresentKeys(c, time) == {k \in DOMAIN c.data : Contains(c, k, time)}

(* C15: a successful upsert restarts the key's time to live, also for a    *)
(* key that is active and however long ago the key was created.  In every  *)
(* reachable state and for every request, whatever the timer reads while   *)
(* it runs: if the request succeeds, storing its entry at time s (the      *)
(* reading of line 220), the entry expires at s + ttl and is present at    *)
(* every time from the end of the request to before s + ttl.  And an entry *)
(* keeps its expiry time and stays stored through every step that ends     *)
(* before that time, unless the step writes it, deletes it or evicts it    *)
(* from a cache full of present entries.                                   *)
C15_UpsertRestartsTtl ==
    /\ [](\A k \in Titles : \A d \in DocsFor(k) :
            Resolved[k][d].handler # 0 =>
              \A ts \in Readings(now, 4) :
                 LET out == post_at(World, ts, k, d)
                 IN  out.resp.status = 200 =>
                       IF ts[4] < ts[3] + ttl
                       THEN /\ k \in DOMAIN out.w.cache.data
                            /\ out.w.cache.expires[k] = ts[3] + ttl
                            /\ \A s \in ts[4]..(ts[3] + ttl - 1) :
                                  Contains(out.w.cache, k, s)
                       ELSE k \notin DOMAIN out.w.cache.data)
    /\ [][\A k \in Stored :
            now' < metrics_cache.expires[k] =>
                \/ /\ k \in DOMAIN metrics_cache'.data
                   /\ metrics_cache'.expires[k] = metrics_cache.expires[k]
                   /\ metrics_cache'.data[k] = metrics_cache.data[k]
                \/ /\ resp' = 200
                   /\ k \in DOMAIN metrics_cache'.data
                   /\ metrics_cache'.links[Len(metrics_cache'.links)] = k
                   /\ metrics_cache'.expires[k] \in {s + ttl : s \in now..now'}
                \/ /\ resp' = 202
                   /\ k \notin DOMAIN metrics_cache'.data
                \/ /\ resp' = 200
                   /\ k \notin DOMAIN metrics_cache'.data
                   /\ k = Head(metrics_cache.links)
                   /\ \E s \in now..now' :
                         Cardinality(PresentKeys(metrics_cache, s))
                            = max_size]_vars

(* an active key written before the current time, which an upsert now      *)
(* writes again with a full time to live                                   *)
C15_Witness ==
    \E k \in Titles : \E d \in DocsFor(k) :
        /\ Present(k)
        /\ metrics_cache.expires[k] < now + ttl
        /\ post(World, now, k, d).resp.status = 200
        /\ post(World, now, k, d).w.cache.expires[k] = now + ttl
        /\ post(World, now, k, d).w.cache.data[k].instance =
              metrics_cache.data[k].instance

----------------------------------------------------------------------------
(* the request (title, doc) is compatible with the stored entry of the     *)
(* key: the kind and the label names of the entry's instance, and a value  *)
(* the kind takes                                                          *)
Compatible(t, d) ==
    /\ Resolved[t][d].handler # 0
    /\ Resolved[t][d].err = Ok
    /\ IsStr(Resolved[t][d].m_type)
    /\ IsObj(Resolved[t][d].labels)
    /\ LET o == objects[metrics_cache.data[t].instance]
       IN  /\ Resolved[t][d].m_type.str = o.kind
           /\ DOMAIN label_values(Resolved[t][d].labels) = o.labelnames
           /\ (o.kind = "counter" => Resolved[t][d].value >= 0)

(* C16: a compatible upsert of an active key reuses the instance.  In      *)
(* every reachable state, for every key line 213 finds in the cache and    *)
(* every compatible request, whatever the timer reads while it runs: the   *)
(* request succeeds, the registry is the same after it, no key is added,   *)
(* the key holds its instance as before unless its new time to live has    *)
(* itself run out, no other entry is evicted or changed unless it has      *)
(* expired, and no object is created or freed.                             *)
C16_CompatibleUpsertReuses ==
    \A t \in Stored : \A d \in DocsFor(t) : \A ts \in Readings(now, 4) :
        (Contains(metrics_cache, t, ts[1]) /\ Compatible(t, d)) =>
            LET out == post_at(World, ts, t, d)
            IN  /\ out.resp.status = 200
                /\ out.w.registry = registry
                /\ DOMAIN out.w.cache.data \subseteq Stored
                /\ ts[4] < ts[3] + ttl =>
                      /\ t \in DOMAIN out.w.cache.data
                      /\ out.w.cache.data[t].instance =
                            metrics_cache.data[t].instance
                /\ \A k \in PresentKeys(metrics_cache, ts[4]) \ {t} :
                      /\ k \in DOMAIN out.w.cache.data
                      /\ out.w.cache.data[k] = metrics_cache.data[k]
                      /\ out.w.cache.expires[k] = metrics_cache.expires[k]
                /\ DOMAIN out.w.objects = DOMAIN objects

----------------------------------------------------------------------------
(* a gauge document whose value is the number 0 *)
ZeroGauge == Doc(Absent, Num(0), Absent, Absent)

(* C17: a gauge upsert accepts every number the value query yields, 0      *)
(* included: for a key with a handler that is absent and unregistered, or  *)
(* active as a gauge, the upsert of value 0 answers 200 and sets the       *)
(* exported sample to 0.                                                   *)
C17_GaugeAcceptsZero ==
    \A t \in Titles :
        (/\ handler_of(t) # 0
         /\ \/ (t \notin Stored /\ t \notin DOMAIN registry)
            \/ (Present(t)
                  /\ objects[metrics_cache.data[t].instance].kind = "gauge")) =>
            LET out == post(World, now, t, ZeroGauge)
                l == label_values(fields(t, ZeroGauge).labels)
            IN  /\ out.resp.status = 200
                /\ out.w.objects[out.w.registry[t]].metrics[l] = 0

----------------------------------------------------------------------------
(* run_extractor on its own: a regex stage, alone or behind a query stage, *)
(* over the patterns, values and defaults below.                           *)

Digit == {DigitChars[i] : i \in 1..10}

Lit(c) == [set |-> {c}, cap |-> FALSE, opt |-> FALSE]
Cls(S) == [set |-> S, cap |-> FALSE, opt |-> FALSE]
Grp(S) == [set |-> S, cap |-> TRUE, opt |-> FALSE]
OptGrp(S) == [set |-> S, cap |-> TRUE, opt |-> TRUE]

RegexPatterns ==
    { <<Grp(Digit)>>,                   \* /(\d)/
      <<Cls(Digit)>>,                   \* /\d/
      <<Lit("l")>>,                     \* /l/
      <<Lit("a"), Grp(Digit)>>,         \* /a(\d)/
      <<Grp({"a"}), Grp(Digit)>>,       \* /(a)(\d)/
      <<OptGrp({"x"}), Cls(Digit)>> }   \* /(x)?\d/

RegexExtractors ==
    {[re |-> p] : p \in RegexPatterns}
    \cup {[list |-> <<[list |-> <<[q |-> <<"value">>], [re |-> p]>>]>>] :
             p \in RegexPatterns}

RegexData == {Null, Num(7), Num(12), Str("abc"), Str("a1"),
              Obj([value |-> Num(4)]), Obj([req |-> Opaque])}

RegexDefaults == {Null, Str("gauge")}

InitExtract ==
    /\ now = 0
    /\ metrics_cache = [data |-> EmptyFn, links |-> <<>>, expires |-> EmptyFn]
    /\ registry = EmptyFn
    /\ objects = EmptyFn
    /\ resp = 0
    /\ threads = [th \in Threads |-> Idle]
    /\ received = 0
    /\ config = Config
    /\ extraction \in {[called |-> FALSE, extractors |-> e, data |-> v,
                        default |-> d, out |-> Null] :
                          e \in RegexExtractors, v \in RegexData,
                          d \in RegexDefaults}
    /\ plan = <<>>

(* the call run_extractor(extractors, data, default) *)
Evaluate ==
    /\ ~extraction.called
    /\ "extractors" \in DOMAIN extraction
    /\ extraction' = [extraction EXCEPT
                         !.called = TRUE,
                         !.out = run_extractor(extraction.extractors,
                                               extraction.data,
                                               extraction.default)]
    /\ UNCHANGED <<now, metrics_cache, registry, objects, resp, threads,
                   received, config, plan>>

NextExtract == Evaluate

SpecExtract == InitExtract /\ [][NextExtract]_vars

(* C18: a regex stage never raises and falls back to the default: applied  *)
(* to a value, it yields the first capture group when the pattern matches  *)
(* the serialised value and has a group (the default if that group took no *)
(* part in the match), and the default both when the pattern does not      *)
(* match and when it matches but has no group.                             *)
C18_RegexStageFallsBack ==
    (extraction.called /\ IsRegex(extraction.extractors)) =>
        /\ ~IsRaise(extraction.out)
        /\ dumps_err(extraction.data) = Ok =>
              LET found == re_search(extraction.extractors.re,
                                     dumps(extraction.data))
              IN  IF found.ok /\ found.groups # <<>>
                       /\ found.groups[1] # NoGroup
                  THEN extraction.out = found.groups[1]
                  ELSE extraction.out = extraction.default

====
